---- MODULE Spec2Model ----
(***************************************************************************)
(* Model of examples/ws_operator.py: the "storm_amplifier" WebSocket       *)
(* operator.  The agent opens one connection, registers itself, and        *)
(* answers every transform request with the transformed signal.            *)
(*                                                                         *)
(* Numbers: the signal weights are Python floats.  They are modelled as    *)
(* integers in units of 0.01, so 1.0 is One = 100 and the delta 0.35 is    *)
(* 35.  Floating-point rounding is outside this model.                     *)
(*                                                                         *)
(* Dictionaries are functions whose DOMAIN is the set of keys present.     *)
(***************************************************************************)
EXTENDS Integers, Sequences, FiniteSets, TLC

VARIABLES
    conn,       \* "init" | "open" | "error" (the transport failed, teardown
                \* pending) | "closed" (run_forever has returned)
    inbound,    \* frames sent by the hub and not yet delivered to on_message
    arrived,    \* ghost: every frame the hub has sent, in arrival order
    received,   \* number of frames the hub has sent on this connection
    sent,       \* frames the agent has passed to ws.send, in order
    cause,      \* ghost, parallel to sent: what was being handled at the send
    handled,    \* ghost: number of completed on_message calls
    last,       \* ghost: <<>> or <<r>>, r the outcome of the last on_message call
    history,    \* ghost: the frame and the frames sent, per on_message call
    errors,     \* number of on_error invocations
    sig,        \* pure-function check: the current signal
    prev,       \* pure-function check: the argument of the last application
    applied     \* pure-function check: transform_signal has been applied

protoVars == <<conn, inbound, arrived, received, sent, cause, handled, last,
               history, errors>>
pureVars == <<sig, prev, applied>>
vars == <<conn, inbound, arrived, received, sent, cause, handled, last,
          history, errors, sig, prev, applied>>

----------------------------------------------------------------------------
(* Bounds of the model *)

\* input weights are the multiples i * Step, i in -MaxIn..MaxIn
MaxIn == 1
Step == 120
\* frames the hub sends on one connection
MaxFrames == 3

----------------------------------------------------------------------------
(* Program constants, in units of 0.01 *)

One == 100
StormDelta == 35
VoidDelta == 15
SparkDelta == 10
QuietDelta == 20
SilkDelta == 10

AGENT_ID == "storm_amplifier"

----------------------------------------------------------------------------
(* Python builtins *)

min(a, b) == IF b < a THEN b ELSE a
max(a, b) == IF b > a THEN b ELSE a

EmptyDict == [k \in {} |-> 0]

dict_get(d, k, default) == IF k \in DOMAIN d THEN d[k] ELSE default

dict_set(d, k, v) == [x \in (DOMAIN d) \cup {k} |-> IF x = k THEN v ELSE d[x]]

----------------------------------------------------------------------------
(* transform_signal *)

\* variant: storm_bringer clamped with max where the code has min
transform_signal_storm_max(signal) ==
    LET values == dict_get(signal, "values", EmptyDict)
        v1 == dict_set(values, "storm_bringer",
                       max(One, dict_get(values, "storm_bringer", 0) + StormDelta))
        v2 == dict_set(v1, "void_singer",
                       min(One, dict_get(v1, "void_singer", 0) + VoidDelta))
        v3 == dict_set(v2, "spark_lord",
                       min(One, dict_get(v2, "spark_lord", 0) + SparkDelta))
        v4 == dict_set(v3, "quiet_tide",
                       max(-One, dict_get(v3, "quiet_tide", 0) - QuietDelta))
        v5 == dict_set(v4, "silk_shadow",
                       max(-One, dict_get(v4, "silk_shadow", 0) - SilkDelta))
    IN  dict_set(signal, "values", v5)

\* variant: quiet_tide dampened by silk_shadow's delta
transform_signal_quiet_delta(signal) ==
    LET values == dict_get(signal, "values", EmptyDict)
        v1 == dict_set(values, "storm_bringer",
                       min(One, dict_get(values, "storm_bringer", 0) + StormDelta))
        v2 == dict_set(v1, "void_singer",
                       min(One, dict_get(v1, "void_singer", 0) + VoidDelta))
        v3 == dict_set(v2, "spark_lord",
                       min(One, dict_get(v2, "spark_lord", 0) + SparkDelta))
        v4 == dict_set(v3, "quiet_tide",
                       max(-One, dict_get(v3, "quiet_tide", 0) - SilkDelta))
        v5 == dict_set(v4, "silk_shadow",
                       max(-One, dict_get(v4, "silk_shadow", 0) - SilkDelta))
    IN  dict_set(signal, "values", v5)

\* variant: spark_lord written without the clamp
transform_signal_spark_unclamped(signal) ==
    LET values == dict_get(signal, "values", EmptyDict)
        v1 == dict_set(values, "storm_bringer",
                       min(One, dict_get(values, "storm_bringer", 0) + StormDelta))
        v2 == dict_set(v1, "void_singer",
                       min(One, dict_get(v1, "void_singer", 0) + VoidDelta))
        v3 == dict_set(v2, "spark_lord",
                       dict_get(v2, "spark_lord", 0) + SparkDelta)
        v4 == dict_set(v3, "quiet_tide",
                       max(-One, dict_get(v3, "quiet_tide", 0) - QuietDelta))
        v5 == dict_set(v4, "silk_shadow",
                       max(-One, dict_get(v4, "silk_shadow", 0) - SilkDelta))
    IN  dict_set(signal, "values", v5)

\* variant: the result's values hold the five named keys only
transform_signal_named_only(signal) ==
    LET values == dict_get(signal, "values", EmptyDict)
        v1 == dict_set(EmptyDict, "storm_bringer",
                       min(One, dict_get(values, "storm_bringer", 0) + StormDelta))
        v2 == dict_set(v1, "void_singer",
                       min(One, dict_get(values, "void_singer", 0) + VoidDelta))
        v3 == dict_set(v2, "spark_lord",
                       min(One, dict_get(values, "spark_lord", 0) + SparkDelta))
        v4 == dict_set(v3, "quiet_tide",
                       max(-One, dict_get(values, "quiet_tide", 0) - QuietDelta))
        v5 == dict_set(v4, "silk_shadow",
                       max(-One, dict_get(values, "silk_shadow", 0) - SilkDelta))
    IN  dict_set(signal, "values", v5)

\* variant: silk_shadow computed from quiet_tide's entry
transform_signal_silk_source(signal) ==
    LET values == dict_get(signal, "values", EmptyDict)
        v1 == dict_set(values, "storm_bringer",
                       min(One, dict_get(values, "storm_bringer", 0) + StormDelta))
        v2 == dict_set(v1, "void_singer",
                       min(One, dict_get(v1, "void_singer", 0) + VoidDelta))
        v3 == dict_set(v2, "spark_lord",
                       min(One, dict_get(v2, "spark_lord", 0) + SparkDelta))
        v4 == dict_set(v3, "quiet_tide",
                       max(-One, dict_get(v3, "quiet_tide", 0) - QuietDelta))
        v5 == dict_set(v4, "silk_shadow",
                       max(-One, dict_get(v4, "quiet_tide", 0) - SilkDelta))
    IN  dict_set(signal, "values", v5)

\* variant: void_singer stops rising one delta short of the clamp bound
transform_signal_void_short(signal) ==
    LET values == dict_get(signal, "values", EmptyDict)
        v1 == dict_set(values, "storm_bringer",
                       min(One, dict_get(values, "storm_bringer", 0) + StormDelta))
        v2 == dict_set(v1, "void_singer",
                       min(One - VoidDelta, dict_get(v1, "void_singer", 0) + VoidDelta))
        v3 == dict_set(v2, "spark_lord",
                       min(One, dict_get(v2, "spark_lord", 0) + SparkDelta))
        v4 == dict_set(v3, "quiet_tide",
                       max(-One, dict_get(v3, "quiet_tide", 0) - QuietDelta))
        v5 == dict_set(v4, "silk_shadow",
                       max(-One, dict_get(v4, "silk_shadow", 0) - SilkDelta))
    IN  dict_set(signal, "values", v5)

\* variant: the result is a new signal that holds the values only
transform_signal_values_only(signal) ==
    LET values == dict_get(signal, "values", EmptyDict)
        v1 == dict_set(values, "storm_bringer",
                       min(One, dict_get(values, "storm_bringer", 0) + StormDelta))
        v2 == dict_set(v1, "void_singer",
                       min(One, dict_get(v1, "void_singer", 0) + VoidDelta))
        v3 == dict_set(v2, "spark_lord",
                       min(One, dict_get(v2, "spark_lord", 0) + SparkDelta))
        v4 == dict_set(v3, "quiet_tide",
                       max(-One, dict_get(v3, "quiet_tide", 0) - QuietDelta))
        v5 == dict_set(v4, "silk_shadow",
                       max(-One, dict_get(v4, "silk_shadow", 0) - SilkDelta))
    IN  [values |-> v5]

transform_signal(signal) ==
    LET values == dict_get(signal, "values", EmptyDict)
        v1 == dict_set(values, "storm_bringer",
                       min(One, dict_get(values, "storm_bringer", 0) + StormDelta))
        v2 == dict_set(v1, "void_singer",
                       min(One, dict_get(v1, "void_singer", 0) + VoidDelta))
        v3 == dict_set(v2, "spark_lord",
                       min(One, dict_get(v2, "spark_lord", 0) + SparkDelta))
        v4 == dict_set(v3, "quiet_tide",
                       max(-One, dict_get(v3, "quiet_tide", 0) - QuietDelta))
        v5 == dict_set(v4, "silk_shadow",
                       max(-One, dict_get(v4, "silk_shadow", 0) - SilkDelta))
    IN  dict_set(signal, "values", v5)

----------------------------------------------------------------------------
(* Inputs of the pure-function check *)

AmpKeys == {"storm_bringer", "void_singer", "spark_lord"}
DampKeys == {"quiet_tide", "silk_shadow"}
NamedKeys == AmpKeys \cup DampKeys
\* a responder the operator does not name
OtherKey == "ember_wisp"

InputVals == {i * Step : i \in -MaxIn..MaxIn}

ValueMaps ==
    UNION {[D -> InputVals] : D \in SUBSET (NamedKeys \cup {OtherKey})}

\* a signal is a dict: "values" may be absent, another field may be present
SignalsOver(maps) ==
    {[values |-> v] : v \in maps}
        \cup {[values |-> v, label |-> "gale"] : v \in maps}
        \cup {[label |-> "gale"], EmptyDict}

Signals == SignalsOver(ValueMaps)

\* starting points of the repeated application: the named keys only
NamedMaps ==
    UNION {[D -> InputVals] : D \in SUBSET NamedKeys}

IterSignals == SignalsOver(NamedMaps)

----------------------------------------------------------------------------
(* The wire: JSON text frames *)

\* A frame is JSON text carrying the object obj, or text that is not JSON.
\* json.dumps writes the text of an object and json.loads reads it back;
\* json.loads raises on text that is not JSON.
json_dumps(obj) == [text |-> "json", obj |-> obj]
Decodable(raw) == raw.text = "json"
json_loads(raw) == raw.obj

NotJson == [text |-> "garbage"]

RequestIds == {"r1", "r2"}

\* signals carried by the transform frames of the protocol check
ProtoSignals ==
    { [values |-> EmptyDict],
      [values |-> [storm_bringer |-> 90]],
      [values |-> [ember_wisp |-> 50, quiet_tide |-> -95], label |-> "gale"],
      EmptyDict }

TransformFrames ==
    {json_dumps([type |-> "transform", request_id |-> r, signal |-> s]) :
        r \in RequestIds, s \in ProtoSignals}

MalformedFrames ==
    { NotJson,
      json_dumps([request_id |-> "r1"]),
      json_dumps([type |-> "transform", request_id |-> "r1"]),
      json_dumps([type |-> "transform", signal |-> [values |-> EmptyDict]]),
      json_dumps([type |-> "registered"]) }

OtherFrames ==
    { json_dumps([type |-> "registered", agent_id |-> AGENT_ID]),
      json_dumps([type |-> "pong"]),
      json_dumps([type |-> "ping"]) }

Frames == TransformFrames \cup MalformedFrames \cup OtherFrames

----------------------------------------------------------------------------
(* The callbacks *)

\* variant: the register frame declares no capability
register_msg_no_capability ==
    [type |-> "register", agent_id |-> AGENT_ID, capabilities |-> <<>>]

register_msg ==
    [type |-> "register", agent_id |-> AGENT_ID, capabilities |-> <<"transform">>]

\* variant: the reply carries the request's type tag as its request_id
response_wrong_id(msg, signal) ==
    [type |-> "transform_result", request_id |-> msg["type"], signal |-> signal]

response(msg, signal) ==
    [type |-> "transform_result", request_id |-> msg["request_id"], signal |-> signal]

\* Outcome of one on_message call: the frames passed to ws.send, whether the
\* call ended by an exception, and the decoded message as the call left it
\* (transform_signal mutates msg["signal"] in place).
Outcome(out, raised, msg) == [out |-> out, raised |-> raised, msg |-> msg]

\* variant: the reply carries the signal as it arrived, and a pong is
\* answered with a ping
on_message_stale_signal(raw) ==
    IF ~Decodable(raw) THEN Outcome(<<>>, TRUE, EmptyDict)
    ELSE
    LET msg == json_loads(raw) IN
    IF "type" \notin DOMAIN msg THEN Outcome(<<>>, TRUE, msg)
    ELSE IF msg["type"] = "transform" THEN
        IF "signal" \notin DOMAIN msg THEN Outcome(<<>>, TRUE, msg)
        ELSE
        LET signal == transform_signal(msg["signal"])
            mutated == dict_set(msg, "signal", signal)
        IN  IF "request_id" \notin DOMAIN msg THEN Outcome(<<>>, TRUE, mutated)
            ELSE Outcome(<<json_dumps(response(msg, msg["signal"]))>>, FALSE, mutated)
    ELSE IF msg["type"] = "registered" THEN
        IF "agent_id" \notin DOMAIN msg THEN Outcome(<<>>, TRUE, msg)
        ELSE Outcome(<<>>, FALSE, msg)
    ELSE IF msg["type"] = "pong" THEN
        Outcome(<<json_dumps([type |-> "ping"])>>, FALSE, msg)
    ELSE Outcome(<<>>, FALSE, msg)

\* variant: a message of another type is rejected with an exception
on_message_unknown_raises(raw) ==
    IF ~Decodable(raw) THEN Outcome(<<>>, TRUE, EmptyDict)
    ELSE
    LET msg == json_loads(raw) IN
    IF "type" \notin DOMAIN msg THEN Outcome(<<>>, TRUE, msg)
    ELSE IF msg["type"] = "transform" THEN
        IF "signal" \notin DOMAIN msg THEN Outcome(<<>>, TRUE, msg)
        ELSE
        LET signal == transform_signal(msg["signal"])
            mutated == dict_set(msg, "signal", signal)
        IN  IF "request_id" \notin DOMAIN msg THEN Outcome(<<>>, TRUE, mutated)
            ELSE Outcome(<<json_dumps(response(mutated, signal))>>, FALSE, mutated)
    ELSE IF msg["type"] = "registered" THEN
        IF "agent_id" \notin DOMAIN msg THEN Outcome(<<>>, TRUE, msg)
        ELSE Outcome(<<>>, FALSE, msg)
    ELSE IF msg["type"] = "pong" THEN Outcome(<<>>, FALSE, msg)
    ELSE Outcome(<<>>, TRUE, msg)

\* variant: the request_id is read with a default, so a transform frame
\* without one is answered
on_message_lenient(raw) ==
    IF ~Decodable(raw) THEN Outcome(<<>>, TRUE, EmptyDict)
    ELSE
    LET msg == json_loads(raw) IN
    IF "type" \notin DOMAIN msg THEN Outcome(<<>>, TRUE, msg)
    ELSE IF msg["type"] = "transform" THEN
        IF "signal" \notin DOMAIN msg THEN Outcome(<<>>, TRUE, msg)
        ELSE
        LET signal == transform_signal(msg["signal"])
            mutated == dict_set(msg, "signal", signal)
        IN  Outcome(<<json_dumps(
                        [type |-> "transform_result",
                         request_id |-> dict_get(msg, "request_id", "None"),
                         signal |-> signal])>>, FALSE, mutated)
    ELSE IF msg["type"] = "registered" THEN
        IF "agent_id" \notin DOMAIN msg THEN Outcome(<<>>, TRUE, msg)
        ELSE Outcome(<<>>, FALSE, msg)
    ELSE Outcome(<<>>, FALSE, msg)

\* the values left in a dict shared by n calls, each applying the deltas
RECURSIVE SharedValues(_)
SharedValues(n) ==
    IF n = 0 THEN EmptyDict
    ELSE transform_signal([values |-> SharedValues(n - 1)])["values"]

\* a signal whose values dict is absent or empty
NoValues(signal) == dict_get(signal, "values", EmptyDict) = EmptyDict

\* variant: an absent or empty values dict is replaced by one dict shared
\* by all calls (values = signal.get("values") or SHARED), which keeps the
\* deltas of the earlier calls
on_message_shared_default(raw) ==
    IF ~Decodable(raw) THEN Outcome(<<>>, TRUE, EmptyDict)
    ELSE
    LET msg == json_loads(raw) IN
    IF "type" \notin DOMAIN msg THEN Outcome(<<>>, TRUE, msg)
    ELSE IF msg["type"] = "transform" THEN
        IF "signal" \notin DOMAIN msg THEN Outcome(<<>>, TRUE, msg)
        ELSE
        LET earlier == Cardinality(
                {k \in 1..Len(history) :
                    /\ Decodable(history[k].frame)
                    /\ {"type", "signal"} \subseteq DOMAIN json_loads(history[k].frame)
                    /\ json_loads(history[k].frame)["type"] = "transform"
                    /\ NoValues(json_loads(history[k].frame)["signal"])})
            signal == IF NoValues(msg["signal"])
                      THEN dict_set(msg["signal"], "values",
                                    SharedValues(earlier + 1))
                      ELSE transform_signal(msg["signal"])
            mutated == dict_set(msg, "signal", signal)
        IN  IF "request_id" \notin DOMAIN msg THEN Outcome(<<>>, TRUE, mutated)
            ELSE Outcome(<<json_dumps(response(mutated, signal))>>, FALSE, mutated)
    ELSE IF msg["type"] = "registered" THEN
        IF "agent_id" \notin DOMAIN msg THEN Outcome(<<>>, TRUE, msg)
        ELSE Outcome(<<>>, FALSE, msg)
    ELSE Outcome(<<>>, FALSE, msg)

\* variant: a registered acknowledgment without agent_id is taken as a
\* failed registration, and the register frame is sent again
on_message_reregisters(raw) ==
    IF ~Decodable(raw) THEN Outcome(<<>>, TRUE, EmptyDict)
    ELSE
    LET msg == json_loads(raw) IN
    IF "type" \notin DOMAIN msg THEN Outcome(<<>>, TRUE, msg)
    ELSE IF msg["type"] = "transform" THEN
        IF "signal" \notin DOMAIN msg THEN Outcome(<<>>, TRUE, msg)
        ELSE
        LET signal == transform_signal(msg["signal"])
            mutated == dict_set(msg, "signal", signal)
        IN  IF "request_id" \notin DOMAIN msg THEN Outcome(<<>>, TRUE, mutated)
            ELSE Outcome(<<json_dumps(response(mutated, signal))>>, FALSE, mutated)
    ELSE IF msg["type"] = "registered" THEN
        IF "agent_id" \notin DOMAIN msg
        THEN Outcome(<<json_dumps(register_msg)>>, FALSE, msg)
        ELSE Outcome(<<>>, FALSE, msg)
    ELSE Outcome(<<>>, FALSE, msg)

on_message(raw) ==
    IF ~Decodable(raw) THEN Outcome(<<>>, TRUE, EmptyDict)
    ELSE
    LET msg == json_loads(raw) IN
    IF "type" \notin DOMAIN msg THEN Outcome(<<>>, TRUE, msg)
    ELSE IF msg["type"] = "transform" THEN
        IF "signal" \notin DOMAIN msg THEN Outcome(<<>>, TRUE, msg)
        ELSE
        LET signal == transform_signal(msg["signal"])
            mutated == dict_set(msg, "signal", signal)
        IN  IF "request_id" \notin DOMAIN msg THEN Outcome(<<>>, TRUE, mutated)
            ELSE Outcome(<<json_dumps(response(mutated, signal))>>, FALSE, mutated)
    ELSE IF msg["type"] = "registered" THEN
        IF "agent_id" \notin DOMAIN msg THEN Outcome(<<>>, TRUE, msg)
        ELSE Outcome(<<>>, FALSE, msg)
    ELSE Outcome(<<>>, FALSE, msg)

\* Effect of a callback that takes no frame: the frames it passes to
\* ws.send, whether it calls ws.close, and whether it ends by an exception.
Effect(out, close, raised) == [out |-> out, close |-> close, raised |-> raised]

\* variant: on_error closes the connection
on_error_closes(error) == Effect(<<>>, TRUE, FALSE)

\* on_error prints the error
on_error(error) == Effect(<<>>, FALSE, FALSE)

\* variant: on_close connects again
on_close_reconnects == "init"

\* on_close prints the close status; run_forever then returns, and the
\* script ends with it
on_close == "closed"

\* the connection after a callback with effect e, which would otherwise
\* be in state c
AfterEffect(e, c) ==
    IF e.raised THEN "crashed" ELSE IF e.close THEN "closed" ELSE c

----------------------------------------------------------------------------
(* Initial states *)

InitProto ==
    /\ conn = "init"
    /\ inbound = <<>>
    /\ arrived = <<>>
    /\ received = 0
    /\ sent = <<>>
    /\ cause = <<>>
    /\ handled = 0
    /\ last = <<>>
    /\ history = <<>>
    /\ errors = 0

PureIdle ==
    /\ sig = EmptyDict
    /\ prev = EmptyDict
    /\ applied = FALSE

InitPure ==
    /\ sig \in Signals
    /\ prev = sig
    /\ applied = FALSE

Init == InitProto /\ PureIdle

InitT == InitProto /\ InitPure

InitIter ==
    /\ InitProto
    /\ sig \in IterSignals
    /\ prev = sig
    /\ applied = FALSE

----------------------------------------------------------------------------
(* The connection: run_forever drives the callbacks one at a time *)

\* the connection is established: on_open sends the register frame
OnOpen ==
    /\ conn = "init"
    /\ conn' = "open"
    /\ sent' = Append(sent, json_dumps(register_msg))
    /\ cause' = Append(cause, [event |-> "open"])
    /\ UNCHANGED <<inbound, arrived, received, handled, last, history, errors,
                   pureVars>>

\* the connection cannot be established: on_error, then the teardown
ConnectFail ==
    /\ conn = "init"
    /\ LET e == on_error("connect")
       IN  /\ conn' = AfterEffect(e, "error")
           /\ sent' = sent \o e.out
           /\ cause' = cause \o [i \in 1..Len(e.out) |-> [event |-> "error"]]
    /\ errors' = errors + 1
    /\ UNCHANGED <<inbound, arrived, received, handled, last, history, pureVars>>

\* the hub sends a frame
HubSend ==
    /\ conn = "open"
    /\ received < MaxFrames
    /\ \E f \in Frames :
        /\ inbound' = Append(inbound, f)
        /\ arrived' = Append(arrived, f)
    /\ received' = received + 1
    /\ UNCHANGED <<conn, sent, cause, handled, last, history, errors, pureVars>>

\* the event loop delivers the frame at position pos of the pending frames
\* to on_message; an exception of the callback is caught by the event loop
\* and handed to on_error
Deliver(pos) ==
    /\ conn = "open"
    /\ pos \in 1..Len(inbound)
    /\ LET raw == inbound[pos]
           r == on_message(raw)
           e == IF r.raised THEN on_error("callback") ELSE Effect(<<>>, FALSE, FALSE)
       IN  /\ sent' = sent \o r.out \o e.out
           /\ cause' = cause
                        \o [i \in 1..Len(r.out) |->
                              [event |-> "message", frame |-> raw,
                               seq |-> handled + 1]]
                        \o [i \in 1..Len(e.out) |-> [event |-> "error"]]
           /\ last' = <<[frame |-> raw, out |-> r.out, raised |-> r.raised,
                         msg |-> r.msg]>>
           /\ history' = Append(history, [frame |-> raw, out |-> r.out])
           /\ errors' = IF r.raised THEN errors + 1 ELSE errors
           /\ conn' = AfterEffect(e, conn)
    /\ inbound' = SubSeq(inbound, 1, pos - 1)
                    \o SubSeq(inbound, pos + 1, Len(inbound))
    /\ handled' = handled + 1
    /\ UNCHANGED <<arrived, received, pureVars>>

\* variant: the newest pending frame is delivered first
OnMessage_newest_first == Deliver(Len(inbound))

\* run_forever reads the frames in arrival order, one at a time
OnMessage == Deliver(1)

\* a transport error: on_error, then the teardown
TransportError ==
    /\ conn = "open"
    /\ LET e == on_error("transport")
       IN  /\ conn' = AfterEffect(e, "error")
           /\ sent' = sent \o e.out
           /\ cause' = cause \o [i \in 1..Len(e.out) |-> [event |-> "error"]]
    /\ errors' = errors + 1
    /\ UNCHANGED <<inbound, arrived, received, handled, last, history, pureVars>>

\* after an error the loop tears the connection down and calls on_close
Teardown ==
    /\ conn = "error"
    /\ conn' = on_close
    /\ UNCHANGED <<inbound, arrived, received, sent, cause, handled, last,
                   history, errors, pureVars>>

\* the hub closes the connection, or the agent is interrupted: on_close
OnClose ==
    /\ conn = "open"
    /\ conn' = on_close
    /\ UNCHANGED <<inbound, arrived, received, sent, cause, handled, last,
                   history, errors, pureVars>>

Next ==
    \/ OnOpen
    \/ ConnectFail
    \/ HubSend
    \/ OnMessage
    \/ TransportError
    \/ Teardown
    \/ OnClose

Spec == Init /\ [][Next]_vars

\* the teardown that follows an error is not postponed for ever
SpecLive == Spec /\ WF_vars(Teardown)

----------------------------------------------------------------------------
(* Repeated application of transform_signal to one signal *)

Apply ==
    /\ prev' = sig
    /\ sig' = transform_signal(sig)
    /\ applied' = TRUE
    /\ UNCHANGED protoVars

NextT == Apply

SpecT == InitT /\ [][NextT]_vars

\* the application is repeated for ever
SpecIter == InitIter /\ [][NextT]_vars /\ WF_vars(Apply)

----------------------------------------------------------------------------
(* Properties of the connection, checked under Spec *)

\* Scenario 1: the values of transform_signal({"values": {}}), units of 0.01
FiveDeltas ==
    [storm_bringer |-> 35, void_singer |-> 15, spark_lord |-> 10,
     quiet_tide |-> -20, silk_shadow |-> -10]

TypeOf(raw) ==
    IF Decodable(raw) /\ "type" \in DOMAIN json_loads(raw)
    THEN json_loads(raw)["type"] ELSE "(none)"

\* C1: every transform_result frame the agent has sent carries the
\* request_id of the transform frame whose handling produced it.
C1_RequestIdEchoed ==
    \A i \in 1..Len(sent) :
        TypeOf(sent[i]) = "transform_result" =>
            /\ cause[i].event = "message"
            /\ TypeOf(cause[i].frame) = "transform"
            /\ "request_id" \in DOMAIN json_loads(cause[i].frame)
            /\ json_loads(sent[i])["request_id"]
                    = json_loads(cause[i].frame)["request_id"]

\* replies to two requests with different request_ids have been sent
C1_Witness ==
    \E i, j \in 1..Len(sent) :
        /\ TypeOf(sent[i]) = "transform_result"
        /\ TypeOf(sent[j]) = "transform_result"
        /\ json_loads(sent[i])["request_id"] = "r1"
        /\ json_loads(sent[j])["request_id"] = "r2"
        /\ json_loads(cause[i].frame)["request_id"] = "r1"
        /\ json_loads(cause[j].frame)["request_id"] = "r2"

\* a transform frame with a request_id and a signal
WellFormedTransform(raw) ==
    /\ TypeOf(raw) = "transform"
    /\ {"request_id", "signal"} \subseteq DOMAIN json_loads(raw)

\* C2: handling one well-formed transform frame sends exactly one frame, a
\* transform_result whose signal is transform_signal of the request's
\* signal; for the request signal {"values": {}} the reply's values are the
\* five deltas.
C2_OneReplyPerTransform ==
    [][ (handled' = handled + 1 /\ WellFormedTransform(Head(inbound))) =>
            /\ Len(sent') = Len(sent) + 1
            /\ SubSeq(sent', 1, Len(sent)) = sent
            /\ LET req == json_loads(Head(inbound))
                   reply == json_loads(sent'[Len(sent')])
               IN  /\ Decodable(sent'[Len(sent')])
                   /\ DOMAIN reply = {"type", "request_id", "signal"}
                   /\ reply["type"] = "transform_result"
                   /\ reply["signal"] = transform_signal(req["signal"])
                   /\ (req["signal"] = [values |-> EmptyDict]
                          => reply["signal"] = [values |-> FiveDeltas]) ]_vars

\* Scenario 3: the request r1 with signal {"values": {}} has been answered
C2_Witness ==
    /\ last # <<>>
    /\ last[1].frame = json_dumps([type |-> "transform", request_id |-> "r1",
                                   signal |-> [values |-> EmptyDict]])
    /\ Len(sent) = 2
    /\ sent[2] = json_dumps([type |-> "transform_result", request_id |-> "r1",
                             signal |-> [values |-> FiveDeltas]])

\* C3: handling a registered frame or a pong frame sends no frame.
C3_QuietFrames ==
    [][ (handled' = handled + 1
            /\ TypeOf(Head(inbound)) \in {"registered", "pong"})
          => sent' = sent ]_vars

\* a pong has been handled on an open connection whose only sent frame is
\* still the register frame
C3_Witness ==
    /\ conn = "open"
    /\ handled = 2
    /\ errors = 0
    /\ last # <<>>
    /\ TypeOf(last[1].frame) = "pong"
    /\ last[1].out = <<>>
    /\ Len(sent) = 1
    /\ TypeOf(sent[1]) = "register"

\* C4: when the connection opens the agent sends a register frame with
\* agent_id "storm_amplifier" and the capability "transform"; every other
\* frame it sends is a transform_result produced by handling a received
\* transform frame.
C4_RegisterOnly ==
    /\ conn = "open" => Len(sent) >= 1
    /\ Len(sent) >= 1 =>
        /\ cause[1].event = "open"
        /\ sent[1] = json_dumps([type |-> "register",
                                 agent_id |-> "storm_amplifier",
                                 capabilities |-> <<"transform">>])
    /\ \A i \in 2..Len(sent) :
        /\ cause[i].event = "message"
        /\ TypeOf(cause[i].frame) = "transform"
        /\ TypeOf(sent[i]) = "transform_result"

\* the register frame and the replies to transform frames have been sent
C4_Witness ==
    /\ conn = "open"
    /\ Len(sent) = 3
    /\ handled = 3
    /\ TypeOf(sent[1]) = "register"
    /\ TypeOf(sent[3]) = "transform_result"

\* a decodable frame whose type is none of transform, registered, pong
UnknownType(raw) ==
    /\ Decodable(raw)
    /\ "type" \in DOMAIN json_loads(raw)
    /\ json_loads(raw)["type"] \notin {"transform", "registered", "pong"}

\* C11: handling a frame whose type is none of transform, registered, pong
\* sends no frame, raises no error and leaves the connection open; the
\* frames behind it stay pending, to be handled next.
C11_UnknownTypeIgnored ==
    [][ (handled' = handled + 1 /\ UnknownType(Head(inbound))) =>
            /\ sent' = sent
            /\ errors' = errors
            /\ conn' = "open"
            /\ last'[1].raised = FALSE
            /\ inbound' = Tail(inbound) ]_vars

\* a ping was handled without error, and the transform behind it answered
C11_Witness ==
    /\ conn = "open"
    /\ errors = 0
    /\ Len(history) = 2
    /\ UnknownType(history[1].frame)
    /\ history[1].out = <<>>
    /\ TypeOf(history[2].frame) = "transform"
    /\ Len(history[2].out) = 1
    /\ Len(sent) = 2

\* a frame that is not JSON, or lacks a field its handling reads
Malformed(raw) ==
    \/ ~Decodable(raw)
    \/ "type" \notin DOMAIN json_loads(raw)
    \/ /\ json_loads(raw)["type"] = "transform"
       /\ ~({"request_id", "signal"} \subseteq DOMAIN json_loads(raw))
    \/ /\ json_loads(raw)["type"] = "registered"
       /\ "agent_id" \notin DOMAIN json_loads(raw)

\* C12: a malformed frame is an error local to that frame: it is dropped,
\* no frame is sent for it, on_error is called and the connection stays
\* open; a well-formed transform handled after a malformed frame is answered.
C12_MalformedDropped ==
    [][ /\ (handled' = handled + 1 /\ Malformed(Head(inbound))) =>
            /\ sent' = sent
            /\ conn' = "open"
            /\ errors' = errors + 1
            /\ inbound' = Tail(inbound)
        /\ (/\ handled' = handled + 1
            /\ WellFormedTransform(Head(inbound))
            /\ \E k \in 1..Len(history) : Malformed(history[k].frame)) =>
            /\ Len(sent') = Len(sent) + 1
            /\ TypeOf(sent'[Len(sent')]) = "transform_result"
            /\ json_loads(sent'[Len(sent')])["request_id"]
                    = json_loads(Head(inbound))["request_id"] ]_vars

\* text that is not JSON and a transform without request_id were dropped,
\* and the transform that came after them was answered
C12_Witness ==
    /\ conn = "open"
    /\ errors = 2
    /\ Len(history) = 3
    /\ ~Decodable(history[1].frame)
    /\ TypeOf(history[2].frame) = "transform"
    /\ Malformed(history[2].frame)
    /\ WellFormedTransform(history[3].frame)
    /\ Len(sent) = 2
    /\ TypeOf(sent[2]) = "transform_result"

\* the result signal the specification gives for each request signal of
\* the check, written out
ExpectedSignal(signal) ==
    CASE signal = [values |-> EmptyDict] -> [values |-> FiveDeltas]
      [] signal = EmptyDict -> [values |-> FiveDeltas]
      [] signal = [values |-> [storm_bringer |-> 90]] ->
            [values |-> [storm_bringer |-> 100, void_singer |-> 15,
                         spark_lord |-> 10, quiet_tide |-> -20,
                         silk_shadow |-> -10]]
      [] signal = [values |-> [ember_wisp |-> 50, quiet_tide |-> -95],
                   label |-> "gale"] ->
            [values |-> [ember_wisp |-> 50, storm_bringer |-> 35,
                         void_singer |-> 15, spark_lord |-> 10,
                         quiet_tide |-> -100, silk_shadow |-> -10],
             label |-> "gale"]

\* the frames sent for a frame, as a function of that frame alone
ExpectedOut(raw) ==
    IF WellFormedTransform(raw)
    THEN <<json_dumps([type |-> "transform_result",
                       request_id |-> json_loads(raw)["request_id"],
                       signal |-> ExpectedSignal(json_loads(raw)["signal"])])>>
    ELSE <<>>

\* C13: message handling is stateless: what is sent for a frame depends on
\* that frame only.  Two handlings of the same frame send the same, and in
\* every run each handling sends what the frame alone determines.
C13_Stateless ==
    /\ \A i, j \in 1..Len(history) :
            history[i].frame = history[j].frame
                => history[i].out = history[j].out
    /\ \A k \in 1..Len(history) :
            history[k].out = ExpectedOut(history[k].frame)

\* the same transform frame answered twice, the second time after a
\* different history, with the same reply
C13_Witness ==
    /\ Len(history) = 3
    /\ history[1].frame = history[3].frame
    /\ history[2].frame # history[1].frame
    /\ WellFormedTransform(history[1].frame)
    /\ WellFormedTransform(history[2].frame)
    /\ json_loads(history[1].frame)["signal"] = EmptyDict
    /\ Len(sent) = 4
    /\ sent[2] = sent[4]
    /\ sent[2] # sent[3]

Registers == {i \in 1..Len(sent) : TypeOf(sent[i]) = "register"}

\* C17: on every connection the register frame is the first frame sent and
\* is sent exactly once: an open connection has sent it, no transform_result
\* precedes it, and handling inbound frames sends no second one.
C17_RegisterFirstOnce ==
    /\ (conn = "open" \/ sent # <<>>) => Registers = {1}
    /\ conn = "init" => sent = <<>>
    /\ \A i \in 1..Len(sent) :
            TypeOf(sent[i]) = "transform_result" => \E j \in 1..(i - 1) : j \in Registers
    /\ \A k \in 1..Len(history) :
            \A n \in 1..Len(history[k].out) :
                TypeOf(history[k].out[n]) # "register"

\* registered acknowledgments, one of them without agent_id, and a
\* transform were handled: the register frame is still the only one
C17_Witness ==
    /\ conn = "open"
    /\ handled = 3
    /\ TypeOf(history[1].frame) = "registered"
    /\ TypeOf(history[2].frame) = "registered"
    /\ history[1].frame # history[2].frame
    /\ WellFormedTransform(history[3].frame)
    /\ Registers = {1}
    /\ Len(sent) = 2

\* C18: transform_signal changes only the values field: every other field
\* of the request's signal is in the reply's signal unchanged, the reply's
\* signal has no further field, and a request signal without values gets
\* values holding exactly the five named keys at their deltas.
C18_OnlyValuesChanged ==
    \A k \in 1..Len(history) :
        WellFormedTransform(history[k].frame) =>
            /\ Len(history[k].out) = 1
            /\ LET req == json_loads(history[k].frame)["signal"]
                   rep == json_loads(history[k].out[1])["signal"]
               IN  /\ DOMAIN rep = (DOMAIN req) \cup {"values"}
                   /\ \A f \in (DOMAIN req) \ {"values"} : rep[f] = req[f]
                   /\ ("values" \notin DOMAIN req => rep["values"] = FiveDeltas)

\* a signal with a label and a signal without values have been answered
C18_Witness ==
    /\ Len(history) = 2
    /\ WellFormedTransform(history[1].frame)
    /\ WellFormedTransform(history[2].frame)
    /\ "label" \in DOMAIN json_loads(history[1].frame)["signal"]
    /\ json_loads(sent[2])["signal"]["label"] = "gale"
    /\ json_loads(history[2].frame)["signal"] = EmptyDict
    /\ json_loads(sent[3])["signal"] = [values |-> FiveDeltas]

\* a transform frame with a signal and no request_id
NoRequestId(raw) ==
    /\ TypeOf(raw) = "transform"
    /\ "signal" \in DOMAIN json_loads(raw)
    /\ "request_id" \notin DOMAIN json_loads(raw)

\* C19: when a transform frame has a signal and no request_id, on_message
\* has applied transform_signal to the frame's signal when the missing
\* field raises, and sends no transform_result for it; the changed signal
\* belongs to that frame only: the reply to every later frame is the one
\* the later frame alone determines.
C19_DiscardedMutation ==
    /\ (last # <<>> /\ NoRequestId(last[1].frame)) =>
            /\ last[1].raised
            /\ last[1].out = <<>>
            /\ last[1].msg["signal"]
                    = ExpectedSignal(json_loads(last[1].frame)["signal"])
            /\ last[1].msg["signal"] # json_loads(last[1].frame)["signal"]
            /\ \A i \in 1..Len(sent) :
                    cause[i].event = "message" => cause[i].seq # handled
    /\ \A k \in 1..Len(history) :
            NoRequestId(history[k].frame) =>
                /\ history[k].out = <<>>
                /\ \A n \in (k + 1)..Len(history) :
                        history[n].out = ExpectedOut(history[n].frame)

\* a transform without request_id was dropped with its signal changed, the
\* same signal in the next request got the plain reply, and a second frame
\* without request_id was dropped the same way
C19_Witness ==
    /\ Len(history) = 3
    /\ NoRequestId(history[1].frame)
    /\ WellFormedTransform(history[2].frame)
    /\ json_loads(history[2].frame)["signal"]
            = json_loads(history[1].frame)["signal"]
    /\ json_loads(sent[2])["signal"] = [values |-> FiveDeltas]
    /\ NoRequestId(last[1].frame)
    /\ last[1].msg["signal"] = [values |-> FiveDeltas]
    /\ Len(sent) = 2
    /\ errors = 2

----------------------------------------------------------------------------
(* Properties of the connection's end, C15 checked under SpecLive *)

\* C15: closing the connection ends the event loop.  Once the transport
\* has failed or the connection is closed, no frame is handled and none is
\* sent; the connection is never opened again; after an error the close
\* follows, and once closed the agent takes no further step.
C15_CloseTerminates ==
    /\ [][ /\ conn \in {"error", "closed"} =>
                /\ sent' = sent
                /\ handled' = handled
                /\ history' = history
                /\ inbound' = inbound
           /\ conn = "error" => conn' \in {"error", "closed"}
           /\ conn = "open" => conn' \in {"open", "error", "closed"}
           /\ conn # "closed" ]_vars
    /\ [](conn = "error" => <>(conn = "closed"))
    /\ [](conn = "closed" => [](conn = "closed"))

\* the connection was closed with a frame still pending, which is never
\* handled
C15_Witness ==
    /\ conn = "closed"
    /\ handled = 1
    /\ Len(inbound) = 2
    /\ WellFormedTransform(inbound[1])
    /\ Len(sent) = 2
    /\ errors = 1

\* C16: an error handed to on_error is only logged: the on_error call
\* sends no frame, does not close the connection (after a transport error
\* the close is the teardown's, a later step) and does not end the process.
C16_ErrorOnlyLogged ==
    [][ errors' = errors + 1 =>
            /\ \A i \in 1..Len(cause') : cause'[i].event # "error"
            /\ sent' = sent
            /\ conn' \notin {"closed", "crashed"}
            /\ (handled' = handled => conn' = "error")
            /\ (handled' = handled + 1 => conn' = conn) ]_vars

\* a transport error after a reply: on_error was called, nothing more was
\* sent, and the connection is not closed yet
C16_Witness ==
    /\ conn = "error"
    /\ errors = 1
    /\ handled = 1
    /\ Len(sent) = 2
    /\ TypeOf(sent[2]) = "transform_result"

----------------------------------------------------------------------------
(* Properties of transform_signal, checked under SpecT (C10 under         *)
(* SpecIter).  prev is the argument S of the last application and sig is   *)
(* transform_signal(S).                                                    *)

\* the deltas as the specification states them, in units of 0.01
AmpDelta == [storm_bringer |-> 35, void_singer |-> 15, spark_lord |-> 10]
DampDelta == [quiet_tide |-> -20, silk_shadow |-> -10]

ValuesOf(S) == dict_get(S, "values", EmptyDict)

\* S.values.get(k, 0)
In(S, k) == dict_get(ValuesOf(S), k, 0)

\* C5: for every signal S and each amplification key k with delta d, the
\* result's values[k] is at most 1.0, and equals S.values[k] + d exactly
\* whenever S.values[k] + d <= 1.0.
C5_AmplifyClamped ==
    applied =>
        \A k \in DOMAIN AmpDelta :
            /\ k \in DOMAIN sig["values"]
            /\ sig["values"][k] <= 100
            /\ (In(prev, k) + AmpDelta[k] <= 100
                    => sig["values"][k] = In(prev, k) + AmpDelta[k])

\* both cases of C5 in one application: storm_bringer clamped, spark_lord not
C5_Witness ==
    /\ applied
    /\ In(prev, "storm_bringer") + 35 > 100
    /\ sig["values"]["storm_bringer"] = 100
    /\ In(prev, "spark_lord") = 90
    /\ sig["values"]["spark_lord"] = 100

\* C6: for every signal S and each dampening key k with delta d, the
\* result's values[k] is at least -1.0, and equals S.values[k] + d exactly
\* whenever S.values[k] + d >= -1.0.
C6_DampenClamped ==
    applied =>
        \A k \in DOMAIN DampDelta :
            /\ k \in DOMAIN sig["values"]
            /\ sig["values"][k] >= -100
            /\ (In(prev, k) + DampDelta[k] >= -100
                    => sig["values"][k] = In(prev, k) + DampDelta[k])

\* both cases of C6 in one application: silk_shadow clamped, quiet_tide not
C6_Witness ==
    /\ applied
    /\ In(prev, "silk_shadow") - 10 < -100
    /\ sig["values"]["silk_shadow"] = -100
    /\ In(prev, "quiet_tide") = -80
    /\ sig["values"]["quiet_tide"] = -100

InRange(S) == \A k \in NamedKeys : -100 <= In(S, k) /\ In(S, k) <= 100

\* C7 as claimed: whatever the input values, each of the five named keys
\* of the result lies in [-1.0, 1.0].
C7_ClampedAnyInput ==
    applied =>
        \A k \in NamedKeys :
            -100 <= sig["values"][k] /\ sig["values"][k] <= 100

\* C7 as amended: the clamp is one-sided (amplified keys at most 1.0,
\* dampened keys at least -1.0); the five named keys of the result lie in
\* [-1.0, 1.0] when those of the input do.
C7_ClampedInRange ==
    applied =>
        /\ \A k \in AmpKeys : sig["values"][k] <= 100
        /\ \A k \in DampKeys : sig["values"][k] >= -100
        /\ (InRange(prev) =>
                \A k \in NamedKeys :
                    -100 <= sig["values"][k] /\ sig["values"][k] <= 100)

\* an in-range input whose storm_bringer the clamp cuts back to 1.0
C7_Witness ==
    /\ applied
    /\ InRange(prev)
    /\ In(prev, "storm_bringer") + 35 > 100
    /\ In(prev, "silk_shadow") - 10 < -100
    /\ sig["values"]["storm_bringer"] = 100

\* C8: every key of S.values that is not a named key keeps its value, and
\* a key that is neither named nor in S.values is not in the result.
C8_OtherKeysUnchanged ==
    applied =>
        /\ (DOMAIN sig["values"]) \ NamedKeys = (DOMAIN ValuesOf(prev)) \ NamedKeys
        /\ \A k \in (DOMAIN ValuesOf(prev)) \ NamedKeys :
                sig["values"][k] = ValuesOf(prev)[k]

\* an application to a signal that carries the unnamed responder
C8_Witness ==
    /\ applied
    /\ OtherKey \in DOMAIN ValuesOf(prev)
    /\ ValuesOf(prev)[OtherKey] # 0
    /\ sig["values"][OtherKey] = ValuesOf(prev)[OtherKey]
    /\ sig # prev

\* C9: a named key absent from S.values is treated as 0: its value in the
\* result is its delta, and for S.values = {} the result's values are exactly
\* the five deltas.
C9_AbsentIsZero ==
    applied =>
        /\ \A k \in NamedKeys \ DOMAIN ValuesOf(prev) :
                sig["values"][k] = FiveDeltas[k]
        /\ (ValuesOf(prev) = EmptyDict => sig["values"] = FiveDeltas)

\* Scenario 1: the application to {"values": {}}
C9_Witness ==
    /\ applied
    /\ prev = [values |-> EmptyDict]
    /\ sig = [values |-> FiveDeltas]

Saturated(S) ==
    /\ "values" \in DOMAIN S
    /\ NamedKeys \subseteq DOMAIN S["values"]
    /\ \A k \in AmpKeys : S["values"][k] = 100
    /\ \A k \in DampKeys : S["values"][k] = -100

ChangesNamed(S) ==
    \E k \in NamedKeys :
        k \notin DOMAIN ValuesOf(S)
            \/ transform_signal(S)["values"][k] # ValuesOf(S)[k]

\* C10: repeated application converges.  From any signal, finitely many
\* applications reach a signal whose amplified keys are 1.0 and dampened
\* keys -1.0 and which a further application leaves as it is; at every
\* signal before that, a further application changes some named value.
C10_Converges ==
    /\ [](~Saturated(sig) => ChangesNamed(sig))
    /\ [](Saturated(sig) => transform_signal(sig) = sig)
    /\ <>[](Saturated(sig))

\* the application that reaches saturation
C10_Witness ==
    /\ applied
    /\ ~Saturated(prev)
    /\ Saturated(sig)
    /\ transform_signal(sig) = sig

====
